---------------------------- MODULE Spec2Model ----------------------------
(***************************************************************************)
(* psypyenv: discovery of the interpreters to inspect (cli.py) and the     *)
(* parsing of requirement declarations (requirements.py).                  *)
(*                                                                         *)
(* Paths are strings.  "/la" is a symbolic link to "/a", the interpreter of *)
(* the running process; "/a" and "/c" always exist, "/b" may be removed    *)
(* and created again between two invocations.                              *)
(***************************************************************************)
EXTENDS Naturals, Sequences, FiniteSets

\* ------------------------------------------------------------------ bounds
MaxExplicit == 2
MaxScan == 2

\* -------------------------------------------------------------- file system
RawPaths == {"/a", "/la", "/b", "/c"}
Removable == {"/b"}

\* sys.executable
sys_executable == "/la"

\* Path.resolve(): symbolic links are followed, a canonical path is itself.
Resolve(p) == IF p = "/la" THEN "/a" ELSE p

\* Path.exists() follows symbolic links.
PathExists(p, ex) == Resolve(p) \in ex

\* ------------------------------------------------------------ sequence help
Range(s) == {s[i] : i \in 1..Len(s)}

SeqsUpTo(S, n) == UNION {[1..k -> S] : k \in 0..n}

DistinctSeqsUpTo(S, n) ==
  {s \in SeqsUpTo(S, n) : \A i, j \in 1..Len(s) : i # j => s[i] # s[j]}

\* ------------------------------------------------------- persisted settings
\* config.load_cached_conda_envs: the ordered (name, path) list as stored.
load_cached_conda_envs(stored) == stored

\* config.save_cached_conda_envs: the stored list is replaced.
save_cached_conda_envs(records) == records

\* config.add_cached_conda_env: one more (name, path) entry is appended; the
\* list stays free of repeated paths.
add_cached_conda_env(stored, name, path) ==
  IF \E i \in 1..Len(stored) : stored[i][2] = path
    THEN stored
    ELSE Append(stored, <<name, path>>)

\* ------------------------------------------------------ conda environments
\* An environment root is (directory name, interpreter location).  The root
\* with the empty directory name is reported as "base".
Envs == {<<"", "/la">>, <<"gamma", "/b">>, <<"delta", "/c">>}

Absent == "<absent>"

\* environment.resolve_python_executable: the interpreter of the root, or
\* absent when there is none.
resolve_python_executable(env, ex) ==
  IF PathExists(env[2], ex) THEN env[2] ELSE Absent

\* env_path.name or "base"
EnvName(env) == IF env[1] = "" THEN "base" ELSE env[1]

\* ------------------------------------------------------ _collect_targets
PythonNames == <<"python-1", "python-2", "python-3", "python-4">>

\* f"python-{index}"
PythonName(index) == PythonNames[index]

\* The accumulator of one discovery: targets/seen of add_target and
\* cached_records/seen_cached_paths of record_cache.
\* ops is the log of what the call does with the persisted list: "load" and
\* "save" of config, and "cached_target" when the loop over cached_entries
\* calls add_target.
EmptyAcc == [targets |-> <<>>, seen |-> {}, cached_records |-> <<>>,
             seen_cached_paths |-> {}, ops |-> <<>>]

Log(acc, op) == [acc EXCEPT !.ops = Append(@, op)]

\* add_target that looks the path up in seen before it is resolved.
add_target_unresolved(acc, name, path) ==
  IF path \in acc.seen
    THEN acc
    ELSE [acc EXCEPT !.seen = @ \cup {path},
                     !.targets = Append(@, <<name, Resolve(path)>>)]

add_target(acc, name, path) ==
  LET resolved == Resolve(path) IN
  IF resolved \in acc.seen
    THEN acc
    ELSE [acc EXCEPT !.seen = @ \cup {resolved},
                     !.targets = Append(@, <<name, resolved>>)]

\* record_cache without its seen_cached_paths test.
record_cache_repeating(acc, env_name, python_path) ==
  [acc EXCEPT !.cached_records = Append(@, <<env_name, Resolve(python_path)>>)]

record_cache(acc, env_name, python_path) ==
  LET resolved_python == Resolve(python_path) IN
  IF resolved_python \in acc.seen_cached_paths
    THEN acc
    ELSE [acc EXCEPT !.seen_cached_paths = @ \cup {resolved_python},
                     !.cached_records = Append(@, <<env_name, resolved_python>>)]

\* for index, item in enumerate(explicit_pythons, start=1)
RECURSIVE ExplicitLoop(_, _, _, _)
ExplicitLoop(acc, explicit_pythons, index, ex) ==
  IF index > Len(explicit_pythons) THEN acc
  ELSE LET candidate == explicit_pythons[index] IN
       ExplicitLoop(IF ~PathExists(candidate, ex) THEN acc
                    ELSE add_target(acc, PythonName(index), candidate),
                    explicit_pythons, index + 1, ex)

\* The loop over cached_entries without its exists() test.
RECURSIVE CachedLoop_keeping_stale(_, _, _, _)
CachedLoop_keeping_stale(acc, cached_entries, index, ex) ==
  IF index > Len(cached_entries) THEN acc
  ELSE LET cached_name == cached_entries[index][1]
           python_path == cached_entries[index][2] IN
       CachedLoop_keeping_stale(
         record_cache(add_target(Log(acc, "cached_target"),
                                 cached_name, python_path),
                      cached_name, python_path),
         cached_entries, index + 1, ex)

\* for index, (cached_name, cached_path) in enumerate(cached_entries, start=1)
RECURSIVE CachedLoop(_, _, _, _)
CachedLoop(acc, cached_entries, index, ex) ==
  IF index > Len(cached_entries) THEN acc
  ELSE LET cached_name == cached_entries[index][1]
           python_path == cached_entries[index][2] IN
       CachedLoop(IF ~PathExists(python_path, ex) THEN acc
                  ELSE record_cache(add_target(Log(acc, "cached_target"),
                                               cached_name, python_path),
                                    cached_name, python_path),
                  cached_entries, index + 1, ex)

\* for index, env_path in enumerate(environments, start=1)
RECURSIVE ScanLoop(_, _, _, _)
ScanLoop(acc, environments, index, ex) ==
  IF index > Len(environments) THEN acc
  ELSE LET env_path == environments[index]
           python_path == resolve_python_executable(env_path, ex) IN
       ScanLoop(IF python_path = Absent THEN acc
                ELSE record_cache(add_target(acc, EnvName(env_path), python_path),
                                  EnvName(env_path), python_path),
                environments, index + 1, ex)

\* cached_entries that reads the stored list on a refresh too.
CachedEntries_always_loading(stored, refresh_cache, preloaded_cached_envs) ==
  load_cached_conda_envs(stored) \o preloaded_cached_envs

\* cached_entries with the registered entries put before the stored ones.
CachedEntries_registered_first(stored, refresh_cache, preloaded_cached_envs) ==
  preloaded_cached_envs
    \o (IF refresh_cache THEN <<>> ELSE load_cached_conda_envs(stored))

\* cached_entries of a discovery: nothing on a refresh, the stored list
\* otherwise; the entries registered by this invocation are appended.
CachedEntries(stored, refresh_cache, preloaded_cached_envs) ==
  (IF refresh_cache THEN <<>> ELSE load_cached_conda_envs(stored))
    \o preloaded_cached_envs

\* _collect_targets that looks for conda before it reads the cached entries:
\* without conda it returns what it has then.
collect_targets_conda_first(include_conda, explicit_pythons, refresh_cache, preloaded_cached_envs, stored, w) ==
  LET a0 == add_target(EmptyAcc, "current", sys_executable)
      a1 == ExplicitLoop(a0, explicit_pythons, 1, w.exists)
  IN
  IF ~include_conda
    THEN [targets |-> a1.targets, stored |-> stored, ops |-> a1.ops]
  ELSE IF ~w.conda_found
    THEN [targets |-> a1.targets, stored |-> stored, ops |-> a1.ops]
    ELSE LET cached_entries ==
               CachedEntries(stored, refresh_cache, preloaded_cached_envs)
             a2 == CachedLoop(IF refresh_cache THEN a1 ELSE Log(a1, "load"),
                              cached_entries, 1, w.exists)
             a3 == ScanLoop(a2, w.environments, 1, w.exists)
         IN [targets |-> a3.targets,
             stored |-> save_cached_conda_envs(a3.cached_records),
             ops |-> Append(a3.ops, "save")]

\* _collect_targets whose early return saves an empty list.
collect_targets_forgetting(include_conda, explicit_pythons, refresh_cache, preloaded_cached_envs, stored, w) ==
  LET a0 == add_target(EmptyAcc, "current", sys_executable)
      a1 == ExplicitLoop(a0, explicit_pythons, 1, w.exists)
  IN
  IF ~include_conda
    THEN [targets |-> a1.targets, stored |-> stored, ops |-> a1.ops]
  ELSE
    LET cached_entries == CachedEntries(stored, refresh_cache, preloaded_cached_envs)
        a2 == CachedLoop(IF refresh_cache THEN a1 ELSE Log(a1, "load"),
                         cached_entries, 1, w.exists)
    IN
    IF ~w.conda_found
      THEN [targets |-> a2.targets, stored |-> save_cached_conda_envs(<<>>),
            ops |-> Append(a2.ops, "save")]
      ELSE LET a3 == ScanLoop(a2, w.environments, 1, w.exists) IN
           [targets |-> a3.targets,
            stored |-> save_cached_conda_envs(a3.cached_records),
            ops |-> Append(a3.ops, "save")]

\* _collect_targets whose early return does not save.
collect_targets_returning_unsaved(include_conda, explicit_pythons, refresh_cache, preloaded_cached_envs, stored, w) ==
  LET a0 == add_target(EmptyAcc, "current", sys_executable)
      a1 == ExplicitLoop(a0, explicit_pythons, 1, w.exists)
  IN
  IF ~include_conda
    THEN [targets |-> a1.targets, stored |-> stored, ops |-> a1.ops]
  ELSE
    LET cached_entries == CachedEntries(stored, refresh_cache, preloaded_cached_envs)
        a2 == CachedLoop(IF refresh_cache THEN a1 ELSE Log(a1, "load"),
                         cached_entries, 1, w.exists)
    IN
    IF ~w.conda_found
      THEN [targets |-> a2.targets, stored |-> stored, ops |-> a2.ops]
      ELSE LET a3 == ScanLoop(a2, w.environments, 1, w.exists) IN
           [targets |-> a3.targets,
            stored |-> save_cached_conda_envs(a3.cached_records),
            ops |-> Append(a3.ops, "save")]

\* The result is the target list, the stored list after the call and the
\* log of what the call did with the stored list.
\* w is the world of the call: the existing paths, whether a conda executable
\* is found and the environment roots conda lists.
collect_targets(include_conda, explicit_pythons, refresh_cache, preloaded_cached_envs, stored, w) ==
  LET a0 == add_target(EmptyAcc, "current", sys_executable)
      a1 == ExplicitLoop(a0, explicit_pythons, 1, w.exists)
  IN
  IF ~include_conda
    THEN [targets |-> a1.targets, stored |-> stored, ops |-> a1.ops]
  ELSE
    LET cached_entries == CachedEntries(stored, refresh_cache, preloaded_cached_envs)
        a2 == CachedLoop(IF refresh_cache THEN a1 ELSE Log(a1, "load"),
                         cached_entries, 1, w.exists)
    IN
    IF ~w.conda_found
      THEN [targets |-> a2.targets,
            stored |-> save_cached_conda_envs(a2.cached_records),
            ops |-> Append(a2.ops, "save")]
      ELSE LET a3 == ScanLoop(a2, w.environments, 1, w.exists) IN
           [targets |-> a3.targets,
            stored |-> save_cached_conda_envs(a3.cached_records),
            ops |-> Append(a3.ops, "save")]

\* ------------------------------------------------------------------ main
\* A --register-conda-env value after entry.split("=", 1) and strip(): eq says
\* whether the value holds "=".
GammaLa == [eq |-> TRUE, name |-> "gamma", path |-> "/la"]
GammaB == [eq |-> TRUE, name |-> "gamma", path |-> "/b"]
NoName == [eq |-> TRUE, name |-> "", path |-> "/b"]
NoEq == [eq |-> FALSE, name |-> "gamma", path |-> ""]

\* The --register-conda-env values of one invocation.
RegisterArgs ==
  { <<>>, <<GammaLa>>, <<GammaB>>, <<NoEq>>, <<GammaLa, GammaB>>,
    <<GammaB, NoName>>, <<NoEq, GammaB>> }

Malformed(entry) == ~entry.eq \/ entry.name = "" \/ entry.path = ""

\* for entry in args.register_conda_env: the first malformed value ends the
\* run (parser.error), the values before it are already stored.
RECURSIVE RegisterLoop(_, _, _)
RegisterLoop(st, register_conda_env, index) ==
  IF index > Len(register_conda_env) THEN st
  ELSE LET entry == register_conda_env[index] IN
       IF Malformed(entry) THEN [st EXCEPT !.error = TRUE]
       ELSE RegisterLoop(
              [st EXCEPT
                 !.stored = add_cached_conda_env(@, entry.name, entry.path),
                 !.registered_envs = Append(@, <<entry.name, entry.path>>),
                 !.ops = Append(@, "append")],
              register_conda_env, index + 1)

\* One invocation with readable, non-empty requirements.
main(a, stored, w) ==
  LET reg == RegisterLoop([stored |-> stored, registered_envs |-> <<>>,
                           error |-> FALSE, ops |-> <<>>], a.register, 1)
  IN
  IF reg.error
    THEN [exit_code |-> 2, targets |-> <<>>, stored |-> reg.stored,
          registered_envs |-> reg.registered_envs, ops |-> reg.ops]
    ELSE LET r == collect_targets(a.include_conda, a.explicit,
                                  a.refresh, reg.registered_envs, reg.stored, w)
         IN [exit_code |-> 0, targets |-> r.targets, stored |-> r.stored,
             registered_envs |-> reg.registered_envs,
             ops |-> reg.ops \o r.ops]


\* ======================================================= requirements.py
\* Text is a sequence of characters.

W_extra_index_url ==
  <<"-", "-", "e", "x", "t", "r", "a", "-", "i", "n", "d", "e", "x", "-",
    "u", "r", "l">>
W_dashes == <<"-", "-">>
W_http == <<"h", "t", "t", "p", ":", "/", "/">>
W_https == <<"h", "t", "t", "p", "s", ":", "/", "/">>
W_git == <<"g", "i", "t", "+">>
W_egg == <<"#", "e", "g", "g", "=">>
Lowercase ==
  <<"a", "b", "c", "d", "e", "f", "g", "h", "i", "j", "k", "l", "m", "n",
    "o", "p", "q", "r", "s", "t", "u", "v", "w", "x", "y", "z">>
Uppercase ==
  <<"A", "B", "C", "D", "E", "F", "G", "H", "I", "J", "K", "L", "M", "N",
    "O", "P", "Q", "R", "S", "T", "U", "V", "W", "X", "Y", "Z">>
Digits == <<"0", "1", "2", "3", "4", "5", "6", "7", "8", "9">>

IsSpace(c) == c = " "

IsAlnum(c) == c \in Range(Lowercase) \cup Range(Uppercase) \cup Range(Digits)

\* str.lower() of one character.
LowerChar(c) ==
  IF c \in Range(Uppercase)
    THEN Lowercase[CHOOSE i \in 1..Len(Uppercase) : Uppercase[i] = c]
    ELSE c

\* str.lower()
lower(s) == [i \in 1..Len(s) |-> LowerChar(s[i])]

RECURSIVE lstrip(_)
lstrip(s) ==
  IF s = <<>> THEN s
  ELSE IF IsSpace(Head(s)) THEN lstrip(Tail(s)) ELSE s

RECURSIVE rstrip(_)
rstrip(s) ==
  IF s = <<>> THEN s
  ELSE IF IsSpace(s[Len(s)]) THEN rstrip(SubSeq(s, 1, Len(s) - 1)) ELSE s

\* str.strip()
strip(s) == rstrip(lstrip(s))

\* str.startswith(prefix)
startswith(s, prefix) ==
  Len(s) >= Len(prefix) /\ SubSeq(s, 1, Len(prefix)) = prefix

\* The places where sub starts in s.
Occurrences(s, sub) ==
  {i \in 1..(Len(s) - Len(sub) + 1) : SubSeq(s, i, i + Len(sub) - 1) = sub}

Min(S) == CHOOSE x \in S : \A y \in S : x <= y

\* s.split(sep)[0], also s.split(sep, 1)[0]: the text before the first sep.
BeforeFirst(s, sep) ==
  IF Occurrences(s, sep) = {} THEN s
  ELSE SubSeq(s, 1, Min(Occurrences(s, sep)) - 1)

\* s.split(sep)[1] for an s that holds sep: the text between the first sep
\* and the next one.
SecondPart(s, sep) ==
  LET from == Min(Occurrences(s, sep)) + Len(sep)
  IN BeforeFirst(SubSeq(s, from, Len(s)), sep)

\* s.split(None, 1) for an s without leading or trailing white space.
split_whitespace_once(s) ==
  LET spaces == {i \in 1..Len(s) : IsSpace(s[i])} IN
  IF spaces = {} THEN <<s>>
  ELSE <<SubSeq(s, 1, Min(spaces) - 1),
         lstrip(SubSeq(s, Min(spaces), Len(s)))>>

\* packaging.requirements.Requirement(text) for names, one optional version
\* specifier and nothing else: a name starts and ends with a letter or digit;
\* a specifier is an operator and a version of digits and dots.
NameChars == Range(Lowercase) \cup Range(Uppercase) \cup Range(Digits)
               \cup {"-", "_", "."}

Operators == {<<"=", "=">>, <<">", "=">>, <<"<", "=">>, <<"!", "=">>}

NameLength(s) ==
  IF \A i \in 1..Len(s) : s[i] \in NameChars THEN Len(s)
  ELSE Min({i \in 1..Len(s) : s[i] \notin NameChars}) - 1

Requirement(text) ==
  LET n == NameLength(text)
      rest == lstrip(SubSeq(text, n + 1, Len(text)))
      version == strip(SubSeq(rest, 3, Len(rest)))
      named == n >= 1 /\ IsAlnum(text[1]) /\ IsAlnum(text[n])
      specified ==
        /\ Len(rest) >= 3
        /\ SubSeq(rest, 1, 2) \in Operators
        /\ version # <<>>
        /\ \A i \in 1..Len(version) : version[i] \in Range(Digits) \cup {"."}
  IN IF named /\ rest = <<>>
       THEN [valid |-> TRUE, name |-> SubSeq(text, 1, n), specs |-> <<>>]
     ELSE IF named /\ specified
       THEN [valid |-> TRUE, name |-> SubSeq(text, 1, n),
             specs |-> <<<<SubSeq(rest, 1, 2), version>>>>]
     ELSE [valid |-> FALSE, name |-> <<>>, specs |-> <<>>]

\* PackageRequirement; an absent url is the empty text.
NoPackage == [name |-> <<>>, specs |-> <<>>, url |-> <<>>, original |-> <<>>]

build_requirement(name, specs, original, url) ==
  [name |-> lower(name), specs |-> specs, url |-> url, original |-> original]

\* What parse_requirement_line gives: None (kind "none"), a pair of an
\* optional package and an optional extra index (kind "pair"), or the
\* exception InvalidRequirement (kind "raise").
ReturnsNone ==
  [kind |-> "none", has_package |-> FALSE, package |-> NoPackage,
   has_extra |-> FALSE, extra |-> <<>>]

Raises == [ReturnsNone EXCEPT !.kind = "raise"]

ReturnsPackage(package) ==
  [ReturnsNone EXCEPT !.kind = "pair", !.has_package = TRUE,
                      !.package = package]

ReturnsExtra(extra) ==
  [ReturnsNone EXCEPT !.kind = "pair", !.has_extra = TRUE, !.extra = extra]

ReturnsNothing == [ReturnsNone EXCEPT !.kind = "pair"]

parse_standard_requirement(requirement, original) ==
  LET parsed == Requirement(requirement) IN
  IF ~parsed.valid THEN Raises
  ELSE ReturnsPackage(
         build_requirement(parsed.name, parsed.specs, original, <<>>))

\* parse_requirement_line that tests for "--" before the extra index token.
parse_requirement_line_options_first(line) ==
  LET stripped == strip(line)
      base == strip(BeforeFirst(stripped, <<"#">>))
  IN
  IF stripped = <<>> \/ startswith(stripped, <<"#">>) THEN ReturnsNone
  ELSE IF startswith(stripped, W_dashes) THEN ReturnsNone
  ELSE IF startswith(stripped, W_extra_index_url) THEN
    LET parts == split_whitespace_once(stripped) IN
    IF Len(parts) = 2 THEN ReturnsExtra(strip(parts[2])) ELSE ReturnsNothing
  ELSE IF \/ startswith(stripped, W_http) \/ startswith(stripped, W_https)
          \/ startswith(stripped, W_git) THEN
    IF Occurrences(stripped, W_egg) # {}
      THEN ReturnsPackage(build_requirement(
             strip(BeforeFirst(SecondPart(stripped, W_egg), <<"&">>)),
             <<>>, stripped, stripped))
      ELSE ReturnsNone
  ELSE IF base = <<>> THEN ReturnsNone
  ELSE parse_standard_requirement(base, stripped)

parse_requirement_line(line) ==
  LET stripped == strip(line)
      base == strip(BeforeFirst(stripped, <<"#">>))
  IN
  IF stripped = <<>> \/ startswith(stripped, <<"#">>) THEN ReturnsNone
  ELSE IF startswith(stripped, W_extra_index_url) THEN
    LET parts == split_whitespace_once(stripped) IN
    IF Len(parts) = 2 THEN ReturnsExtra(strip(parts[2])) ELSE ReturnsNothing
  ELSE IF startswith(stripped, W_dashes) THEN ReturnsNone
  ELSE IF \/ startswith(stripped, W_http) \/ startswith(stripped, W_https)
          \/ startswith(stripped, W_git) THEN
    IF Occurrences(stripped, W_egg) # {}
      THEN ReturnsPackage(build_requirement(
             strip(BeforeFirst(SecondPart(stripped, W_egg), <<"&">>)),
             <<>>, stripped, stripped))
      ELSE ReturnsNone
  ELSE IF base = <<>> THEN ReturnsNone
  ELSE parse_standard_requirement(base, stripped)

\* What a parse gives: the two lists, or the exception that left it.
Returned(requirements, extra_indexes) ==
  [raised |-> "none", requirements |-> requirements,
   extra_indexes |-> extra_indexes]

Raised(exception) ==
  [raised |-> exception, requirements |-> <<>>, extra_indexes |-> <<>>]

\* parse_requirements on a text file, the loop over its lines.
RECURSIVE parse_lines(_, _, _)
parse_lines(acc, lines, line_number) ==
  IF line_number > Len(lines) THEN acc
  ELSE LET parsed == parse_requirement_line(lines[line_number]) IN
       parse_lines(
         IF parsed.kind = "raise" \/ parsed.kind = "none" THEN acc
         ELSE IF parsed.has_extra
           THEN [acc EXCEPT !.extra_indexes = Append(@, parsed.extra)]
         ELSE IF parsed.has_package
           THEN [acc EXCEPT !.requirements = Append(@, parsed.package)]
         ELSE acc,
         lines, line_number + 1)

\* parse_requirement_text: InvalidRequirement is not caught.
RECURSIVE parse_requirement_text(_, _, _)
parse_requirement_text(acc, text, index) ==
  IF index > Len(text) THEN acc
  ELSE LET parsed == parse_requirement_line(text[index]) IN
       IF parsed.kind = "raise" THEN Raised("InvalidRequirement")
       ELSE parse_requirement_text(
              IF parsed.kind = "pair" /\ parsed.has_package
                THEN [acc EXCEPT !.requirements = Append(@, parsed.package)]
                ELSE acc,
              text, index + 1)

\* ------------------------------------------------------------- manifests
\* A value of the document has a type: "absent", "list", "string", "table".
\* A list has items, each a string (a line) or an integer.  A table of
\* optional dependencies has groups in the order of the document.
AbsentValue == [type |-> "absent", items |-> <<>>]

StringValue == [type |-> "string", items |-> <<>>]

ListValue(items) == [type |-> "list", items |-> items]

AbsentTable == [type |-> "absent", groups |-> <<>>]

StringInsteadOfTable == [type |-> "string", groups |-> <<>>]

Table(groups) == [type |-> "table", groups |-> groups]

AbsentProject ==
  [type |-> "absent", dependencies |-> AbsentValue, optional |-> AbsentTable]

StringProject == [AbsentProject EXCEPT !.type = "string"]

\* _collect_dependency_strings
collect_dependency_strings(value) ==
  IF value.type = "absent" THEN <<>>
  ELSE IF value.type # "list" THEN <<>>
  ELSE LET strings == SelectSeq(value.items, LAMBDA e : e.type = "string")
       IN [i \in 1..Len(strings) |-> strings[i].line.text]

\* The loop over the groups that puts each group before what was collected.
RECURSIVE GroupLoop_groups_first(_, _, _)
GroupLoop_groups_first(dependency_strings, groups, index) ==
  IF index > Len(groups) THEN dependency_strings
  ELSE GroupLoop_groups_first(
         collect_dependency_strings(groups[index].value) \o dependency_strings,
         groups, index + 1)

\* for group, entries in optional_dependencies.items()
RECURSIVE GroupLoop(_, _, _)
GroupLoop(dependency_strings, groups, index) ==
  IF index > Len(groups) THEN dependency_strings
  ELSE GroupLoop(
         dependency_strings \o collect_dependency_strings(groups[index].value),
         groups, index + 1)

\* for entry in dependency_strings
RECURSIVE EntryLoop(_, _, _)
EntryLoop(requirements, dependency_strings, index) ==
  IF index > Len(dependency_strings) THEN requirements
  ELSE LET parsed == parse_requirement_line(dependency_strings[index]) IN
       EntryLoop(
         IF parsed.kind = "raise" \/ parsed.kind = "none" \/ ~parsed.has_package
           THEN requirements
           ELSE Append(requirements, parsed.package),
         dependency_strings, index + 1)

\* _parse_pyproject.  doc.read is what path.read_text does, doc.toml what
\* tomllib.loads does, doc.project the value of data["project"].
parse_pyproject(doc) ==
  IF doc.read = "FileNotFoundError" THEN Returned(<<>>, <<>>)
  ELSE IF doc.read # "ok" THEN Raised(doc.read)
  ELSE IF doc.toml # "ok" THEN Returned(<<>>, <<>>)
  ELSE IF doc.project.type \notin {"absent", "table"}
    THEN Raised("AttributeError")
  ELSE
    LET project_table == doc.project
        optional_dependencies == project_table.optional
        core == collect_dependency_strings(project_table.dependencies)
        dependency_strings ==
          IF optional_dependencies.type = "absent"
               \/ optional_dependencies.groups = <<>>
               \/ optional_dependencies.type # "table"
            THEN core
            ELSE GroupLoop(core, optional_dependencies.groups, 1)
    IN Returned(EntryLoop(<<>>, dependency_strings, 1), <<>>)

\* The text of each line.
Texts(lines) == [i \in 1..Len(lines) |-> lines[i].text]

\* parse_requirements: the suffix of the path chooses the parser.
parse_requirements(src) ==
  IF src.form = "toml" THEN parse_pyproject(src.doc)
  ELSE parse_lines(Returned(<<>>, <<>>), Texts(src.lines), 1)

\* ------------------------------------------------------- sample sources
\* Sample lines: the text, the kind of line it is by the rules of the
\* requirements format, and the name or index URL it is to yield.
T_Blank == <<>>
T_Comment == <<"#", " ", "c">>
T_IndexU ==
  <<"-", "-", "e", "x", "t", "r", "a", "-", "i", "n", "d", "e", "x", "-",
    "u", "r", "l", " ", "u">>
T_IndexV ==
  <<" ", "-", "-", "e", "x", "t", "r", "a", "-", "i", "n", "d", "e", "x",
    "-", "u", "r", "l", " ", " ", "v", " ">>
T_IndexBare ==
  <<"-", "-", "e", "x", "t", "r", "a", "-", "i", "n", "d", "e", "x", "-",
    "u", "r", "l">>
T_OptionPre == <<"-", "-", "p", "r", "e">>
T_OptionR == <<"-", "r", " ", "x">>
T_UrlEgg ==
  <<"g", "i", "t", "+", "x", "#", "e", "g", "g", "=", "P", "k", "&", "s">>
T_UrlPlain == <<"h", "t", "t", "p", ":", "/", "/", "x">>
T_Rich == <<"r", "i", "c", "h">>
T_NpPinned == <<" ", "N", "p", "=", "=", "1", " ", "#", " ", "c">>
T_NoPackage == <<"=", "=", "1">>
T_IndexEq ==
  <<"-", "-", "e", "x", "t", "r", "a", "-", "i", "n", "d", "e", "x", "-",
    "u", "r", "l", "=", "u">>

L_Blank == [text |-> T_Blank, kind |-> "blank", yields |-> <<>>]
L_Comment == [text |-> T_Comment, kind |-> "comment", yields |-> <<>>]
L_IndexU == [text |-> T_IndexU, kind |-> "index", yields |-> <<"u">>]
L_IndexV == [text |-> T_IndexV, kind |-> "index", yields |-> <<"v">>]
L_IndexBare == [text |-> T_IndexBare, kind |-> "bare", yields |-> <<>>]
L_OptionPre == [text |-> T_OptionPre, kind |-> "option", yields |-> <<>>]
L_OptionR == [text |-> T_OptionR, kind |-> "option", yields |-> <<>>]
L_UrlEgg == [text |-> T_UrlEgg, kind |-> "req", yields |-> <<"p", "k">>]
L_UrlPlain == [text |-> T_UrlPlain, kind |-> "url", yields |-> <<>>]
L_Rich == [text |-> T_Rich, kind |-> "req", yields |-> <<"r", "i", "c", "h">>]
L_NpPinned == [text |-> T_NpPinned, kind |-> "req", yields |-> <<"n", "p">>]
L_NoPackage == [text |-> T_NoPackage, kind |-> "malformed", yields |-> <<>>]
L_IndexEq == [text |-> T_IndexEq, kind |-> "bare", yields |-> <<>>]

SampleLines ==
  { L_Blank, L_Comment, L_IndexU, L_IndexV, L_IndexBare, L_IndexEq,
    L_OptionPre, L_OptionR, L_UrlEgg, L_UrlPlain, L_Rich, L_NpPinned,
    L_NoPackage }

StringItem(line) == [type |-> "string", line |-> line]

IntegerItem == [type |-> "int", line |-> L_Blank]

DependencyItems ==
  { StringItem(L_Rich), StringItem(L_NpPinned), StringItem(L_NoPackage),
    IntegerItem }

GroupNames == <<"dev", "docs", "test", "extra">>

MaxLines == 3
MaxDeps == 2
MaxGroups == 2

DependencyValues ==
  {AbsentValue, StringValue} \cup
    {ListValue(items) : items \in SeqsUpTo(DependencyItems, MaxDeps)}

GroupValues ==
  { StringValue,
    ListValue(<<StringItem(L_Rich)>>),
    ListValue(<<StringItem(L_NpPinned), StringItem(L_Rich)>>),
    ListValue(<<IntegerItem, StringItem(L_IndexU)>>),
    ListValue(<<StringItem(L_NoPackage), StringItem(L_NpPinned)>>) }

OptionalValues ==
  {AbsentTable, StringInsteadOfTable} \cup
    { Table([i \in 1..Len(vs) |-> [name |-> GroupNames[i], value |-> vs[i]]]) :
        vs \in SeqsUpTo(GroupValues, MaxGroups) }

ReadableDoc(project) == [read |-> "ok", toml |-> "ok", project |-> project]

Docs ==
  { [ReadableDoc(AbsentProject) EXCEPT !.read = r] :
      r \in {"FileNotFoundError", "PermissionError", "UnicodeDecodeError"} }
  \cup { [ReadableDoc(AbsentProject) EXCEPT !.toml = "TOMLDecodeError"],
         ReadableDoc(AbsentProject), ReadableDoc(StringProject) }
  \cup { ReadableDoc([type |-> "table", dependencies |-> d, optional |-> o]) :
           d \in DependencyValues, o \in OptionalValues }

NoSource ==
  [form |-> "lines", lines |-> <<>>, doc |-> ReadableDoc(AbsentProject)]

Sources ==
  { [NoSource EXCEPT !.lines = ls] : ls \in SeqsUpTo(SampleLines, MaxLines) }
  \cup { [NoSource EXCEPT !.form = "toml", !.doc = d] : d \in Docs }

\* ----------------------------------------------------------------- state
VARIABLES
  cache,          \* the persisted list of (name, path) conda environments
  world,          \* existing paths, conda found or not, the roots conda lists
  pc,             \* "idle" between invocations, "done" when one has ended
  args,           \* the arguments of the invocation that has ended
  targets,        \* its target list
  exit_code,      \* its exit code
  registered,     \* its registered_envs
  cache_before,   \* the persisted list when it started
  settled,        \* the invocation before it was a plain discovery and
                  \* nothing changed since
  last_registered, \* the names the invocation before it registered
  cache_ops,      \* what the invocation did with the persisted list, in
                  \* order: "append" of a registration, then the "load",
                  \* "cached_target" and "save" of the discovery
  source,         \* a requirements source: the lines of a text file, or a
                  \* manifest
  entry,          \* the parser that read it: "file", "text", "manifest",
                  \* or "none" before
  outcome         \* what the parser gave

discovery_vars == <<cache, world, pc, args, targets, exit_code, registered,
                    cache_before, settled, last_registered, cache_ops>>

parse_vars == <<source, entry, outcome>>

vars == <<discovery_vars, parse_vars>>

Worlds ==
  { [exists |-> {"/a", "/c"} \cup rm, conda_found |-> cf, environments |-> envs] :
      rm \in SUBSET Removable, cf \in BOOLEAN,
      envs \in DistinctSeqsUpTo(Envs, MaxScan) }

\* Without a conda executable nothing is listed.
ValidWorld(w) == ~w.conda_found => w.environments = <<>>

ArgSets ==
  { [explicit |-> e, include_conda |-> ic, refresh |-> rf, register |-> rg] :
      e \in SeqsUpTo({"/a", "/b"}, MaxExplicit),
      ic \in BOOLEAN, rf \in BOOLEAN, rg \in RegisterArgs }

\* --refresh-conda-envs is only read when --include-conda-envs is given.
ValidArgs(a) == a.refresh => a.include_conda

NoArgs == [explicit |-> <<>>, include_conda |-> FALSE, refresh |-> FALSE,
           register |-> <<>>]

NothingRun ==
  /\ cache = <<>>
  /\ pc = "idle"
  /\ args = NoArgs
  /\ targets = <<>>
  /\ exit_code = 0
  /\ registered = <<>>
  /\ cache_before = <<>>
  /\ settled = FALSE
  /\ last_registered = {}
  /\ cache_ops = <<>>

NothingParsed ==
  /\ entry = "none"
  /\ outcome = Returned(<<>>, <<>>)

Init ==
  /\ world \in {w \in Worlds : ValidWorld(w)}
  /\ NothingRun
  /\ source = NoSource
  /\ NothingParsed

\* A plain discovery: conda environments included, no refresh, nothing
\* registered.
Plain(a) == a.include_conda /\ ~a.refresh /\ a.register = <<>>

\* python -m psypyenv ... with requirements that parse.
Run ==
  /\ pc = "idle"
  /\ \E a \in ArgSets :
       /\ ValidArgs(a)
       /\ LET r == main(a, cache, world) IN
          /\ cache' = r.stored
          /\ targets' = r.targets
          /\ exit_code' = r.exit_code
          /\ registered' = r.registered_envs
          /\ args' = a
          /\ cache_ops' = r.ops
  /\ cache_before' = cache
  /\ pc' = "done"
  /\ UNCHANGED <<world, settled, last_registered, parse_vars>>

\* An invocation that ends in parser.error before anything is registered: two
\* requirement sources, no requirements file, or no valid requirement in it.
UsageError ==
  /\ pc = "idle"
  /\ pc' = "done"
  /\ exit_code' = 2
  /\ cache_before' = cache
  /\ UNCHANGED <<cache, world, args, targets, registered, settled,
                 last_registered, cache_ops, parse_vars>>

\* The process ends; only the persisted list outlives it.
Exit ==
  /\ pc = "done"
  /\ pc' = "idle"
  /\ settled' = (Plain(args) /\ exit_code = 0)
  /\ last_registered' = {registered[i][1] : i \in 1..Len(registered)}
  /\ args' = NoArgs
  /\ targets' = <<>>
  /\ exit_code' = 0
  /\ registered' = <<>>
  /\ cache_before' = <<>>
  /\ cache_ops' = <<>>
  /\ UNCHANGED <<cache, world, parse_vars>>

\* Between two invocations interpreters and environments come and go.
Change ==
  /\ pc = "idle"
  /\ \E w \in Worlds : ValidWorld(w) /\ w # world /\ world' = w
  /\ settled' = FALSE
  /\ UNCHANGED <<cache, pc, args, targets, exit_code, registered,
                 cache_before, last_registered, cache_ops, parse_vars>>

Next == Run \/ UsageError \/ Exit \/ Change

Spec == Init /\ [][Next]_vars

\* The parsers, each applied to every sample source.
ParseInit ==
  /\ world = [exists |-> {"/a", "/c"}, conda_found |-> FALSE,
              environments |-> <<>>]
  /\ NothingRun
  /\ source \in Sources
  /\ NothingParsed

\* parse_requirements(path) on a text file.
ParseFile ==
  /\ entry = "none"
  /\ source.form = "lines"
  /\ outcome' = parse_requirements(source)
  /\ entry' = "file"
  /\ UNCHANGED <<source, discovery_vars>>

\* parse_requirements(path) on a path that ends in .toml.
ParseManifest ==
  /\ entry = "none"
  /\ source.form = "toml"
  /\ outcome' = parse_requirements(source)
  /\ entry' = "manifest"
  /\ UNCHANGED <<source, discovery_vars>>

\* parse_requirement_text(text) on the same lines.
ParseText ==
  /\ entry = "none"
  /\ source.form = "lines"
  /\ outcome' = parse_requirement_text(Returned(<<>>, <<>>),
                                       Texts(source.lines), 1)
  /\ entry' = "text"
  /\ UNCHANGED <<source, discovery_vars>>

ParseNext == ParseFile \/ ParseManifest \/ ParseText

ParseSpec == ParseInit /\ [][ParseNext]_vars

\* ------------------------------------------------- what a run had to consider
\* The stored list once the registered entries of the run were added to it.
RECURSIVE AddAll(_, _, _)
AddAll(stored, reg, i) ==
  IF i > Len(reg) THEN stored
  ELSE AddAll(add_cached_conda_env(stored, reg[i][1], reg[i][2]), reg, i + 1)

Existing(S, ex) == SelectSeq(S, LAMBDA e : PathExists(e[2], ex))

\* The explicit interpreters that exist, each named after its position.
ExplicitSources(a, w) ==
  Existing([i \in 1..Len(a.explicit) |-> <<PythonName(i), a.explicit[i]>>],
           w.exists)

\* The stored entries the run read, none on a refresh.
LoadedSources(a, before, reg, w) ==
  IF a.refresh THEN <<>> ELSE Existing(AddAll(before, reg, 1), w.exists)

\* The environments conda listed whose interpreter was resolved.
ScanSources(w) ==
  IF w.conda_found
    THEN Existing([i \in 1..Len(w.environments) |->
                     <<EnvName(w.environments[i]), w.environments[i][2]>>],
                  w.exists)
    ELSE <<>>

CondaSources(a, before, reg, w) ==
  LoadedSources(a, before, reg, w) \o Existing(reg, w.exists) \o ScanSources(w)

AllSources(a, before, reg, w) ==
  <<<<"current", sys_executable>>>> \o ExplicitSources(a, w)
    \o (IF a.include_conda THEN CondaSources(a, before, reg, w) ELSE <<>>)

\* The positions of S that are the first of their resolved path.
FirstPositions(S) ==
  {k \in 1..Len(S) : \A j \in 1..(k - 1) : Resolve(S[j][2]) # Resolve(S[k][2])}

\* S without the later occurrences of a resolved path, paths resolved.
Firsts(S) ==
  LET K == FirstPositions(S)
      at(i) == CHOOSE k \in K : Cardinality({j \in K : j <= k}) = i
  IN [i \in 1..Cardinality(K) |-> <<S[at(i)][1], Resolve(S[at(i)][2])>>]

Names(S) == {S[i][1] : i \in 1..Len(S)}

ResolvedPaths(S) == {Resolve(S[i][2]) : i \in 1..Len(S)}

\* The name under which resolved path r comes first in S.
FirstName(S, r) ==
  S[CHOOSE k \in 1..Len(S) :
      /\ Resolve(S[k][2]) = r
      /\ \A j \in 1..(k - 1) : Resolve(S[j][2]) # r][1]

Finished == pc = "done" /\ exit_code = 0

Discovered == Finished /\ args.include_conda

\* ------------------------------------------------------------------ claims

\* C1: the target list never holds two entries with the same resolved path;
\* the current interpreter has exactly one target, also when it is given
\* again with --python; of several sources with one resolved path the first
\* seen gives the target its name.
C1_TargetsDeduplicated ==
  Finished =>
    LET S == AllSources(args, cache_before, registered, world) IN
    /\ \A i, j \in 1..Len(targets) : i # j => targets[i][2] # targets[j][2]
    /\ Cardinality({i \in 1..Len(targets) :
                      targets[i][2] = Resolve(sys_executable)}) = 1
    /\ \A i \in 1..Len(targets) :
         /\ targets[i][2] \in ResolvedPaths(S)
         /\ targets[i][1] = FirstName(S, targets[i][2])

\* C1 witness: the current interpreter is given again with --python, a cached
\* entry resolves to it too, and one target stands for the three of them.
C1_Witness ==
  /\ Discovered
  /\ \E i \in 1..Len(args.explicit) :
       Resolve(args.explicit[i]) = Resolve(sys_executable)
  /\ \E i \in 1..Len(cache_before) :
       Resolve(cache_before[i][2]) = Resolve(sys_executable)
  /\ ~args.refresh
  /\ Len(targets) = 2

\* C2 as stated: after a discovery with conda environments included the
\* stored list is the stored and registered entries whose path exists and the
\* scanned environments with an interpreter, first of each resolved path,
\* whether or not the run is a refresh.
C2_AsStated ==
  Discovered =>
    cache = Firsts(Existing(AddAll(cache_before, registered, 1), world.exists)
                     \o Existing(registered, world.exists)
                     \o ScanSources(world))

\* C2 amended: after a discovery with conda environments included the stored
\* list is exactly the entries the run considered valid, first of each resolved
\* path and in the order considered: the stored entries whose path exists
\* (none of them on a refresh), the registered entries whose path exists, the
\* scanned environments with an interpreter; no entry with a missing path
\* is left.  Both exits of the run write it.
C2_CacheIsValidEntries ==
  Discovered =>
    /\ cache = Firsts(CondaSources(args, cache_before, registered, world))
    /\ \A i \in 1..Len(cache) : PathExists(cache[i][2], world.exists)

\* C2 witness: no conda executable is found, a stored entry lost its path and
\* is pruned, another one is kept.
C2_Witness ==
  /\ Discovered
  /\ ~args.refresh
  /\ ~world.conda_found
  /\ \E i \in 1..Len(cache_before) :
       ~PathExists(cache_before[i][2], world.exists)
  /\ Len(cache) >= 1

\* C2 witness of the other exit: conda is found, stored and scanned entries
\* are merged.
C2_WitnessScan ==
  /\ Discovered
  /\ ~args.refresh
  /\ world.conda_found
  /\ Len(cache_before) >= 1
  /\ Len(cache) > Len(cache_before)

\* C3 as stated: a refresh run neither reads a stored entry into its targets
\* nor carries one into the rewritten list, and writes the fresh scan back;
\* after a run that registered an entry, a refresh run without registration
\* leaves no entry with the registered name.
C3_AsStated ==
  (Discovered /\ args.refresh) =>
    /\ LET r == main(args, <<>>, world) IN
         targets = r.targets /\ cache = r.stored
    /\ ResolvedPaths(ScanSources(world)) \subseteq ResolvedPaths(cache)
    /\ args.register = <<>> => \A n \in last_registered : n \notin Names(cache)

\* C3 amended: the targets and the rewritten list of a refresh run are those
\* of the same run started with an empty stored list; every scanned
\* environment with an interpreter is written back; without registration
\* the rewritten list is the scan alone, so that a name registered by the run
\* before is left only where a scanned environment bears it.
C3_RefreshBypassesCache ==
  (Discovered /\ args.refresh) =>
    /\ LET r == main(args, <<>>, world) IN
         targets = r.targets /\ cache = r.stored
    /\ ResolvedPaths(ScanSources(world)) \subseteq ResolvedPaths(cache)
    /\ args.register = <<>> =>
         /\ cache = Firsts(ScanSources(world))
         /\ \A n \in last_registered :
              n \in Names(cache) => n \in Names(ScanSources(world))

\* C3 witness: the run before registered gamma, the refresh run registers
\* nothing, scans an environment and leaves no entry named gamma.
C3_Witness ==
  /\ Discovered /\ args.refresh /\ args.register = <<>>
  /\ "gamma" \in last_registered
  /\ "gamma" \in Names(Existing(cache_before, world.exists))
  /\ "gamma" \notin Names(cache)
  /\ cache # <<>>

\* C4: a plain discovery (conda included, no refresh, no registration) that
\* follows a plain discovery in an unchanged world leaves the stored list as
\* the first one left it, in content and order.
C4_Idempotent ==
  (Discovered /\ Plain(args) /\ settled) => cache = cache_before

\* C4 witness: the second of two plain discoveries, with stored and scanned
\* entries to merge.
C4_Witness ==
  /\ Discovered /\ Plain(args) /\ settled
  /\ world.conda_found
  /\ Len(ScanSources(world)) >= 1
  /\ Len(cache) >= 2

\* The sources that come before the i-th registered entry of the run.
BeforeRegistered(i) ==
  <<<<"current", sys_executable>>>> \o ExplicitSources(args, world)
    \o Existing(cache_before, world.exists) \o SubSeq(registered, 1, i - 1)

\* C5 as stated: a discovery without refresh that registered gamma at an
\* existing path has a target named gamma.
C5_AsStated ==
  (Discovered /\ ~args.refresh) =>
    \A i \in 1..Len(registered) :
      PathExists(registered[i][2], world.exists) =>
        registered[i][1] \in Names(targets)

\* C5 amended: a discovery with conda environments included and without
\* refresh has a target for the resolved path of every registered entry whose
\* path exists, with or without a conda executable; the target bears the
\* registered name unless the path was seen before (the current interpreter,
\* an explicit interpreter, an entry stored or registered earlier), and then
\* it bears the name seen first.
C5_RegisteredBecomesTarget ==
  (Discovered /\ ~args.refresh) =>
    \A i \in 1..Len(registered) :
      PathExists(registered[i][2], world.exists) =>
        LET r == Resolve(registered[i][2])
            B == BeforeRegistered(i)
        IN /\ r \in ResolvedPaths(targets)
           /\ FirstName(targets, r) =
                (IF r \in ResolvedPaths(B) THEN FirstName(B, r)
                 ELSE registered[i][1])

\* C5 witness: gamma=/b is registered, no conda executable is found, and
\* gamma is a target.
C5_Witness ==
  /\ Discovered /\ ~args.refresh
  /\ ~world.conda_found
  /\ <<"gamma", "/b">> \in Range(registered)
  /\ <<"gamma", "/b">> \in Range(targets)

StoredBeforeRegistered(i) ==
  (IF args.include_conda /\ args.refresh THEN <<>> ELSE cache_before)
    \o SubSeq(registered, 1, i - 1)

\* After the run every registered entry whose path exists has its resolved
\* path in the stored list, under its name unless an entry stored or registered
\* before it has that path.
RegisteredIsStored ==
  Finished =>
    \A i \in 1..Len(registered) :
      (PathExists(registered[i][2], world.exists) \/ ~args.include_conda) =>
        LET r == Resolve(registered[i][2])
            B == StoredBeforeRegistered(i)
        IN /\ r \in ResolvedPaths(cache)
           /\ FirstName(cache, r) =
                (IF r \in ResolvedPaths(B) THEN FirstName(B, r)
                 ELSE registered[i][1])

\* An invocation without refresh keeps every stored entry whose path exists,
\* under the name it had.
StoredIsKept ==
  (pc = "idle" /\ pc' = "done" /\ ~args'.refresh) =>
    \A r \in ResolvedPaths(cache) \cap world.exists :
      /\ r \in ResolvedPaths(cache')
      /\ FirstName(cache', r) = FirstName(cache, r)

C7_TargetOrder ==
  Finished =>
    /\ targets # <<>>
    /\ targets[1] = <<"current", Resolve(sys_executable)>>
    /\ targets = Firsts(AllSources(args, cache_before, registered, world))

\* C7 witness: an explicit interpreter, a cached entry and a scanned
\* environment of three sources follow the current interpreter ... two at a
\* time: here explicit before scanned, with a cached duplicate dropped.
C7_Witness ==
  /\ Discovered /\ ~args.refresh
  /\ Len(targets) = 3
  /\ targets[2][1] = "python-2"
  /\ targets[3] = <<"delta", "/c">>
  /\ Len(AllSources(args, cache_before, registered, world)) > 3

\* C7 witness: a cached entry comes before a scanned environment.
C7_WitnessCached ==
  /\ Discovered /\ ~args.refresh
  /\ Len(targets) = 3
  /\ targets[2] \in Range(cache_before)
  /\ targets[3][2] \notin ResolvedPaths(cache_before)

\* --------------------------------------------------- claims on the parsers
\* s without its i-th element.
Without(s, i) == SubSeq(s, 1, i - 1) \o SubSeq(s, i + 1, Len(s))

\* The line makes parse_requirement_line fail with InvalidRequirement.
IsMalformed(text) == parse_requirement_line(text).kind = "raise"

\* The parser named by entry, applied to other lines.
ParseAgain(lines) ==
  IF entry = "file"
    THEN parse_requirements([NoSource EXCEPT !.lines = lines])
    ELSE parse_requirement_text(Returned(<<>>, <<>>), Texts(lines), 1)

\* The manifest with other project.dependencies.
WithDependencies(doc, items) ==
  [doc EXCEPT !.project.dependencies.items = items]

\* A malformed line of the parsed lines is skipped: the parse ends without an
\* exception and gives what it gives for the lines without it.
LinesIndependent ==
  \A i \in 1..Len(source.lines) :
    IsMalformed(source.lines[i].text) =>
      /\ outcome.raised = "none"
      /\ outcome = ParseAgain(Without(source.lines, i))

\* The same for the entries of project.dependencies of a manifest.
DependenciesIndependent ==
  LET items == source.doc.project.dependencies.items IN
  \A i \in 1..Len(items) :
    (items[i].type = "string" /\ IsMalformed(items[i].line.text)) =>
      /\ outcome.raised = "none"
      /\ outcome = parse_pyproject(WithDependencies(source.doc, Without(items, i)))

\* C8: whichever parser reads a sequence of lines (parse_requirements on a
\* text file, the dependency list of a manifest, parse_requirement_text), a
\* malformed line is skipped and the other lines yield what they yield
\* without it, in the same order.
C8_LineIndependent ==
  /\ entry \in {"file", "text"} => LinesIndependent
  /\ entry = "manifest" => DependenciesIndependent

\* C8 for the two parsers that catch InvalidRequirement.
C8_FilesAndManifests ==
  /\ entry = "file" => LinesIndependent
  /\ entry = "manifest" => DependenciesIndependent

\* The kinds of line of the round trip: requirement lines, extra index
\* directives with a URL, blank lines, comments, other option lines.
RoundTripKinds == {"req", "index", "blank", "comment", "option"}

OfKind(lines, kind) == SelectSeq(lines, LAMBDA l : l.kind = kind)

Unusable(doc) ==
  \/ doc.read # "ok"
  \/ doc.toml # "ok"
  \/ doc.project.type \notin {"absent", "table"}

\* C10: parsing a malformed or unreadable manifest gives an empty requirement
\* list and an empty extra index list, and raises nothing.
C10_ManifestErrorsRecovered ==
  (entry = "manifest" /\ Unusable(source.doc)) =>
    outcome = Returned(<<>>, <<>>)

\* C10 for the manifests that are missing or not parsable.
C10_MissingOrUnparsable ==
  (entry = "manifest"
     /\ (source.doc.read = "FileNotFoundError" \/ source.doc.toml # "ok")) =>
    outcome = Returned(<<>>, <<>>)

\* ------------------------------------------------ claims on manifest order
\* The entries of a value of the document, none unless it is a list.
ItemsOf(value) == IF value.type = "list" THEN value.items ELSE <<>>

\* The entries of the groups, group after group in the order of the document.
RECURSIVE ItemsOfGroups(_)
ItemsOfGroups(groups) ==
  IF groups = <<>> THEN <<>>
  ELSE ItemsOf(Head(groups).value) \o ItemsOfGroups(Tail(groups))

\* The requirement lines among the entries, in their order.
RequirementLines(items) ==
  LET reqs == SelectSeq(items,
                LAMBDA e : e.type = "string" /\ e.line.kind = "req")
  IN [i \in 1..Len(reqs) |-> reqs[i].line]

\* The parse of the manifest gave one requirement for each of these lines,
\* in this order, and no index URL.
ManifestGives(lines) ==
  /\ outcome.raised = "none"
  /\ outcome.extra_indexes = <<>>
  /\ Len(outcome.requirements) = Len(lines)
  /\ \A i \in 1..Len(lines) :
       /\ outcome.requirements[i].name = lines[i].yields
       /\ outcome.requirements[i].original = strip(lines[i].text)

ParsedUsableManifest == entry = "manifest" /\ ~Unusable(source.doc)

\* C11 as stated: parse_requirements takes the path alone, so no caller
\* requests optional groups, and the result of a manifest is to hold the
\* requirements of project.dependencies only.
C11_AsStated ==
  ParsedUsableManifest =>
    ManifestGives(RequirementLines(ItemsOf(source.doc.project.dependencies)))

\* C11 amended: the result of a manifest holds the requirements of
\* project.dependencies first, then those of each optional group in the
\* order of the groups in the document, the entries of a group in list
\* order; the optional groups are always included.
C11_DependenciesThenGroups ==
  ParsedUsableManifest =>
    ManifestGives(RequirementLines(
      ItemsOf(source.doc.project.dependencies)
        \o ItemsOfGroups(source.doc.project.optional.groups)))

\* C11 witness: a manifest with a dependency list and two optional groups,
\* the first of two requirements, parsed to the dependencies followed by the
\* first group and then the second.
C11_Witness ==
  /\ ParsedUsableManifest
  /\ source.doc.project.dependencies =
       ListValue(<<StringItem(L_Rich), StringItem(L_NpPinned)>>)
  /\ Len(source.doc.project.optional.groups) = 2
  /\ source.doc.project.optional.groups[1].value =
       ListValue(<<StringItem(L_NpPinned), StringItem(L_Rich)>>)
  /\ source.doc.project.optional.groups[2].value =
       ListValue(<<StringItem(L_NoPackage), StringItem(L_NpPinned)>>)
  /\ [i \in 1..Len(outcome.requirements) |-> outcome.requirements[i].name]
       = <<L_Rich.yields, L_NpPinned.yields, L_NpPinned.yields,
           L_Rich.yields, L_NpPinned.yields>>

\* ------------------------------------------------- claims on the cache I/O
\* What the discovery of the invocation did with the persisted list: the log
\* without the appends of the registrations that main made before it.
DiscoveryOps == SelectSeq(cache_ops, LAMBDA op : op # "append")

\* The places of op in ops.
Positions(ops, op) == {i \in 1..Len(ops) : ops[i] = op}

\* C12: in a discovery with conda environments included the persisted list
\* is read at most once, before any target from the cache is added, and is
\* written exactly once, as the last operation, whether or not a conda
\* executable is found; a discovery without conda environments neither reads
\* nor writes the list.
C12_CacheProtocol ==
  Finished =>
    LET ops == DiscoveryOps
        loads == Positions(ops, "load")
        saves == Positions(ops, "save")
    IN IF args.include_conda
         THEN /\ Cardinality(loads) <= 1
              /\ \A i \in loads : \A j \in Positions(ops, "cached_target") : i < j
              /\ saves = {Len(ops)}
         ELSE loads = {} /\ saves = {}

\* C12 witness: a discovery that finds no conda executable read the list,
\* added a target from it and saved at its early return.
C12_Witness ==
  /\ Discovered
  /\ ~world.conda_found
  /\ DiscoveryOps = <<"load", "cached_target", "save">>
  /\ Len(targets) = 2

\* C12 witness: a discovery that scans read the list, added two targets from
\* it and saved once at the end.
C12_WitnessScan ==
  /\ Discovered
  /\ world.conda_found
  /\ world.environments # <<>>
  /\ DiscoveryOps = <<"load", "cached_target", "cached_target", "save">>

\* ----------------------------------------------- claims on registration
\* The invocation ended in the usage error of a malformed
\* --register-conda-env value.
RejectedRegistration ==
  /\ pc = "done"
  /\ exit_code = 2
  /\ \E i \in 1..Len(args.register) : Malformed(args.register[i])

\* C13: when a --register-conda-env value of the invocation is malformed,
\* wherever it stands among the values, the run ends with a usage error and
\* the persisted list holds exactly what it held before the run.
C13_AllOrNothing ==
  /\ (pc = "done" /\ \E i \in 1..Len(args.register) :
                        Malformed(args.register[i])) => exit_code = 2
  /\ RejectedRegistration => cache = cache_before

\* What holds of a rejected registration: the run ends with a usage error,
\* no discovery is made, and the values before the first malformed one are
\* stored as by add_cached_conda_env, the values after it are not.
C13_StoredUpToMalformed ==
  /\ (pc = "done" /\ \E i \in 1..Len(args.register) :
                        Malformed(args.register[i])) => exit_code = 2
  /\ RejectedRegistration =>
       /\ targets = <<>>
       /\ \A i \in 1..Len(args.register) :
            Malformed(args.register[i]) => Len(registered) < i
       /\ cache = AddAll(cache_before, registered, 1)
       /\ Malformed(args.register[1]) => cache = cache_before

=============================================================================
